---- MODULE Spec2Model ----
(***************************************************************************)
(* Model of the recifind backend (src/src/server.js): the favorites        *)
(* routes over the favorites table, and the two AI proxy routes.           *)
(*                                                                         *)
(* A request occupies a connection slot.  A handler runs in three steps,   *)
(* split where the code awaits its collaborator:                           *)
(*   idle -> called    the synchronous part up to the await (validation,   *)
(*                     the query or prompt is issued), or idle -> done     *)
(*                     when the handler answers before any await;          *)
(*   called -> returned  the collaborator executes the statement / call    *)
(*                     and resolves or rejects the awaited promise;        *)
(*   returned -> done  the continuation (or the catch block) responds.     *)
(***************************************************************************)
EXTENDS Integers, Sequences, FiniteSets, TLC

(* ------------------------------ bounds -------------------------------- *)
MaxId == 3        \* at most MaxId rows are ever inserted
MaxConc == 3      \* connection slots of the concurrent specification

ConcSlots == 1..MaxConc
SeqSlots == {1}

(* ------------------------------ values -------------------------------- *)
Users == {"u1", "u2"}
RecipeIds == {1, 2}
Fields == {"userId", "recipeId", "title"}

\* A JSON request body: the set of keys present and their values (the value
\* of an absent key is never read: Get yields undefined for it).
Body(p, u, r, t) ==
  [present |-> p, userId |-> u, recipeId |-> r, title |-> t]

AddBodies ==
  { Body(Fields, u, r, "Soup") : u \in Users, r \in RecipeIds }
  \cup { Body(Fields \ {"userId"}, "", 1, "Soup"),
         Body(Fields, "", 1, "Soup"),
         Body(Fields \ {"recipeId"}, "u1", 0, "Soup"),
         Body(Fields, "u1", 0, "Soup"),
         Body(Fields \ {"title"}, "u1", 1, ""),
         Body(Fields, "u1", 1, ""),
         Body({}, "", 0, "") }

\* Path segments are character sequences.
Segs == { <<"1">>, <<"2">>, <<"1", "x">>, <<"x", "1">>, <<"0", "x", "2">> }

NoSeg == <<>>
NoBody == Body({}, "", 0, "")

Request(k, b, u, sg) == [kind |-> k, body |-> b, userId |-> u, seg |-> sg]
NoRequest == Request("none", NoBody, "", NoSeg)

\* The text of an AI reply: whether it is well-formed JSON and, if it is,
\* the value it denotes (an array of objects given by their key sets, or
\* something that is not an array).
QuizFields == {"question", "options", "correctAnswer", "explanation"}
JsonValue(a, e) == [isArray |-> a, elems |-> e]
NoJson == JsonValue(FALSE, <<>>)
Text(w, v) == [wellFormed |-> w, value |-> v]
NoText == Text(FALSE, NoJson)
AiTexts ==
  { Text(TRUE, JsonValue(TRUE, <<QuizFields, QuizFields>>)),
    Text(TRUE, JsonValue(TRUE, <<>>)),
    Text(TRUE, JsonValue(TRUE, <<QuizFields, {"question", "options"}>>)),
    Text(TRUE, JsonValue(TRUE, <<QuizFields \cup {"hint"}>>)),
    Text(TRUE, JsonValue(FALSE, <<>>)),
    Text(FALSE, NoJson) }

Payload(rs, m, t, q) == [rows |-> rs, msg |-> m, text |-> t, quiz |-> q]
Response(st, p) == [status |-> st, body |-> p]
NoResponse == Response(0, Payload(<<>>, "", NoText, NoJson))
ErrorResponse(st, m) == Response(st, Payload(<<>>, m, NoText, NoJson))

Result(th, rs, t) == [threw |-> th, rows |-> rs, text |-> t]
NoResult == Result(FALSE, <<>>, NoText)

(* --------------------------- pure functions --------------------------- *)
\* JavaScript truthiness of body[f]: undefined, "" and 0 are falsy.
Truthy(b, f) ==
  /\ f \in b.present
  /\ IF f = "recipeId" THEN b.recipeId # 0 ELSE b[f] # ""

\* Variants of the required-fields test: all three missing; title unchecked.
MissingRequiredAll(b) ==
  /\ ~Truthy(b, "userId")
  /\ ~Truthy(b, "recipeId")
  /\ ~Truthy(b, "title")

MissingRequiredNoTitle(b) ==
  \/ ~Truthy(b, "userId")
  \/ ~Truthy(b, "recipeId")

\* !userId || !recipeId || !title
MissingRequired(b) ==
  \/ ~Truthy(b, "userId")
  \/ ~Truthy(b, "recipeId")
  \/ ~Truthy(b, "title")

\* parseInt(string) with no radix.
IsWhite(c) == c = " "

RECURSIVE StripWhite(_)
StripWhite(s) ==
  IF s # <<>> /\ IsWhite(Head(s)) THEN StripWhite(Tail(s)) ELSE s

DigitChars == {"0", "1", "2", "3", "4", "5", "6", "7", "8", "9"}
HexChars == DigitChars \cup {"a", "b", "c", "d", "e", "f"}

DigitVal(c) ==
  CASE c = "0" -> 0 [] c = "1" -> 1 [] c = "2" -> 2 [] c = "3" -> 3
    [] c = "4" -> 4 [] c = "5" -> 5 [] c = "6" -> 6 [] c = "7" -> 7
    [] c = "8" -> 8 [] c = "9" -> 9 [] c = "a" -> 10 [] c = "b" -> 11
    [] c = "c" -> 12 [] c = "d" -> 13 [] c = "e" -> 14 [] c = "f" -> 15

RadixChars(radix) == IF radix = 16 THEN HexChars ELSE DigitChars

RECURSIVE DigitPrefix(_, _)
DigitPrefix(s, radix) ==
  IF s # <<>> /\ Head(s) \in RadixChars(radix)
  THEN <<Head(s)>> \o DigitPrefix(Tail(s), radix)
  ELSE <<>>

RECURSIVE DigitsValue(_, _, _)
DigitsValue(s, radix, acc) ==
  IF s = <<>> THEN acc
  ELSE DigitsValue(Tail(s), radix, acc * radix + DigitVal(Head(s)))

Number(n) == [nan |-> FALSE, val |-> n]
NaN == [nan |-> TRUE, val |-> 0]

\* Variant of parseInt that skips any characters before the first digit.
RECURSIVE SkipToDigit(_)
SkipToDigit(s) ==
  IF s # <<>> /\ Head(s) \notin DigitChars THEN SkipToDigit(Tail(s)) ELSE s

ParseIntAnywhere(seg) ==
  LET ds == DigitPrefix(SkipToDigit(seg), 10)
  IN IF ds = <<>> THEN NaN ELSE Number(DigitsValue(ds, 10, 0))

ParseInt(seg) ==
  LET s1 == StripWhite(seg)
      signed == s1 # <<>> /\ Head(s1) \in {"-", "+"}
      neg == s1 # <<>> /\ Head(s1) = "-"
      s2 == IF signed THEN Tail(s1) ELSE s1
      hex == Len(s2) >= 2 /\ s2[1] = "0" /\ s2[2] \in {"x", "X"}
      radix == IF hex THEN 16 ELSE 10
      s3 == IF hex THEN Tail(Tail(s2)) ELSE s2
      ds == DigitPrefix(s3, radix)
      v == DigitsValue(ds, radix, 0)
  IN IF ds = <<>> THEN NaN
     ELSE Number(IF neg THEN 0 - v ELSE v)

\* JSON.parse(response.text): throws on text that is not well-formed.
JsonParse(t) == [threw |-> ~t.wellFormed, value |-> t.value]

(* --------------------------- the database ----------------------------- *)
\* A stored row: its generated id, the columns that were given a value, and
\* their values.
Row(i, p, u, r, t) ==
  [id |-> i, present |-> p, userId |-> u, recipeId |-> r, title |-> t]

\* eq(favoritesTable.userId, userId)
EqUserId(row, u) == row.userId = u

\* eq(favoritesTable.recipeId, parseInt(recipeId)); an invalid number
\* compares equal to no stored recipeId.
EqRecipeId(row, n) == ~n.nan /\ row.recipeId = n.val

\* The surrogate key of the next inserted row, and the sequence after it.
NewId(nid) == nid
BumpId(nid) == nid + 1

\* Variant of the insert that replaces a row of the same user and recipe.
InsertRowUpsert(t, nid, b) ==
  LET keep(row) == ~(row.userId = b.userId /\ row.recipeId = b.recipeId)
  IN Append(SelectSeq(t, keep),
            Row(NewId(nid), b.present, b.userId, b.recipeId, b.title))

\* db.insert(favoritesTable).values({...}).returning()
InsertRow(t, nid, b) ==
  Append(t, Row(NewId(nid), b.present, b.userId, b.recipeId, b.title))

\* Variant of the select without its where clause.
SelectRowsAll(t, u) == t

\* db.select().from(favoritesTable).where(eq(userId))
SelectRows(t, u) ==
  LET keep(row) == EqUserId(row, u) IN SelectSeq(t, keep)

\* Variant of the delete that matches on the user alone.
DeleteRowsByUser(t, u, n) ==
  LET keep(row) == ~EqUserId(row, u) IN SelectSeq(t, keep)

\* db.delete(favoritesTable).where(and(eq(userId), eq(recipeId)))
DeleteRows(t, u, n) ==
  LET keep(row) == ~(EqUserId(row, u) /\ EqRecipeId(row, n))
  IN SelectSeq(t, keep)

(* ------------------------------ state --------------------------------- *)
VARIABLES
  table,     \* the favorites table, rows in insertion order
  nextId,    \* the table's id sequence
  pc,        \* per slot: "idle", "called", "returned", "done"
  req,       \* per slot: the request being handled
  result,    \* per slot: what the awaited collaborator call produced
  resp,      \* per slot: the response sent
  ncalls,    \* per slot: collaborator calls issued for the request
  nresp,     \* per slot: responses sent for the request
  before,    \* per slot: the table just before the request's statement
  after,     \* per slot: the table just after the request's statement
  prev       \* the last completed request, its response and table

vars == <<table, nextId, pc, req, result, resp, ncalls, nresp,
          before, after, prev>>

NoPrev == [req |-> NoRequest, resp |-> NoResponse, after |-> <<>>]

Init ==
  /\ table = <<>>
  /\ nextId = 1
  /\ pc = [s \in ConcSlots |-> "idle"]
  /\ req = [s \in ConcSlots |-> NoRequest]
  /\ result = [s \in ConcSlots |-> NoResult]
  /\ resp = [s \in ConcSlots |-> NoResponse]
  /\ ncalls = [s \in ConcSlots |-> 0]
  /\ nresp = [s \in ConcSlots |-> 0]
  /\ before = [s \in ConcSlots |-> <<>>]
  /\ after = [s \in ConcSlots |-> <<>>]
  /\ prev = NoPrev

\* Shared shapes of the three handler steps.
Unused(s) == UNCHANGED <<table, nextId, result, before, after, prev>>

\* The handler issues its awaited collaborator call.
Call(s, q) ==
  /\ pc' = [pc EXCEPT ![s] = "called"]
  /\ req' = [req EXCEPT ![s] = q]
  /\ ncalls' = [ncalls EXCEPT ![s] = @ + 1]
  /\ UNCHANGED <<resp, nresp>>
  /\ Unused(s)

\* The handler sends a response: res.status(..).json(..).
Respond(s, r) ==
  /\ pc' = [pc EXCEPT ![s] = "done"]
  /\ resp' = [resp EXCEPT ![s] = r]
  /\ nresp' = [nresp EXCEPT ![s] = @ + 1]

\* The collaborator settles the awaited promise.
Settle(s, r) ==
  /\ pc' = [pc EXCEPT ![s] = "returned"]
  /\ result' = [result EXCEPT ![s] = r]
  /\ before' = [before EXCEPT ![s] = table]
  /\ after' = [after EXCEPT ![s] = table']
  /\ UNCHANGED <<req, resp, ncalls, nresp, prev>>

InFlightAdds == { s \in ConcSlots : pc[s] = "called" /\ req[s].kind = "add" }

(* ----------------------- POST /api/favorites -------------------------- *)
AddFavorite(s, b) ==
  /\ pc[s] = "idle"
  /\ nextId + Cardinality(InFlightAdds) <= MaxId
  /\ IF MissingRequired(b)
     THEN /\ Respond(s, ErrorResponse(400, "Missing required fields"))
          /\ req' = [req EXCEPT ![s] = Request("add", b, "", NoSeg)]
          /\ UNCHANGED ncalls
          /\ Unused(s)
     ELSE Call(s, Request("add", b, "", NoSeg))

InsertExec(s) ==
  /\ pc[s] = "called"
  /\ req[s].kind = "add"
  /\ table' = InsertRow(table, nextId, req[s].body)
  /\ nextId' = BumpId(nextId)
  /\ Settle(s, Result(FALSE, <<table'[Len(table')]>>, NoText))

\* Variant that answers with the table's newest row, read when responding,
\* instead of the row the insert returned.
AddFavoriteDoneReread(s) ==
  /\ pc[s] = "returned"
  /\ req[s].kind = "add"
  /\ IF result[s].threw
     THEN Respond(s, ErrorResponse(500, "Something went wrong"))
     ELSE Respond(s, Response(201,
            Payload(IF table = <<>> THEN <<>> ELSE <<table[Len(table)]>>,
                    "", NoText, NoJson)))
  /\ UNCHANGED <<req, ncalls>>
  /\ Unused(s)

AddFavoriteDone(s) ==
  /\ pc[s] = "returned"
  /\ req[s].kind = "add"
  /\ IF result[s].threw
     THEN Respond(s, ErrorResponse(500, "Something went wrong"))
     ELSE Respond(s, Response(201,
            Payload(<<result[s].rows[1]>>, "", NoText, NoJson)))
  /\ UNCHANGED <<req, ncalls>>
  /\ Unused(s)

(* -------------------- GET /api/favorites/:userId ---------------------- *)
ListFavorites(s, u) ==
  /\ pc[s] = "idle"
  /\ Call(s, Request("list", NoBody, u, NoSeg))

SelectExec(s) ==
  /\ pc[s] = "called"
  /\ req[s].kind = "list"
  /\ UNCHANGED <<table, nextId>>
  /\ Settle(s, Result(FALSE, SelectRows(table, req[s].userId), NoText))

ListFavoritesDone(s) ==
  /\ pc[s] = "returned"
  /\ req[s].kind = "list"
  /\ IF result[s].threw
     THEN Respond(s, ErrorResponse(500, "Something went wrong"))
     ELSE Respond(s, Response(200,
            Payload(result[s].rows, "", NoText, NoJson)))
  /\ UNCHANGED <<req, ncalls>>
  /\ Unused(s)

(* -------------- DELETE /api/favorites/:userId/:recipeId --------------- *)
RemoveFavorite(s, u, sg) ==
  /\ pc[s] = "idle"
  /\ Call(s, Request("remove", NoBody, u, sg))

DeleteExec(s) ==
  /\ pc[s] = "called"
  /\ req[s].kind = "remove"
  /\ table' = DeleteRows(table, req[s].userId, ParseInt(req[s].seg))
  /\ UNCHANGED nextId
  /\ Settle(s, Result(FALSE, <<>>, NoText))

\* Variant that answers 404 when the delete removed nothing.
RemoveFavoriteDoneNotFound(s) ==
  /\ pc[s] = "returned"
  /\ req[s].kind = "remove"
  /\ IF result[s].threw
     THEN Respond(s, ErrorResponse(500, "Something went wrong"))
     ELSE IF after[s] = before[s]
     THEN Respond(s, ErrorResponse(404, "Favorite not found"))
     ELSE Respond(s, Response(200,
            Payload(<<>>, "Favorite removed successfully", NoText, NoJson)))
  /\ UNCHANGED <<req, ncalls>>
  /\ Unused(s)

RemoveFavoriteDone(s) ==
  /\ pc[s] = "returned"
  /\ req[s].kind = "remove"
  /\ IF result[s].threw
     THEN Respond(s, ErrorResponse(500, "Something went wrong"))
     ELSE Respond(s, Response(200,
            Payload(<<>>, "Favorite removed successfully", NoText, NoJson)))
  /\ UNCHANGED <<req, ncalls>>
  /\ Unused(s)

\* The persistence call rejects: the statement has no effect.
DbThrow(s) ==
  /\ pc[s] = "called"
  /\ req[s].kind \in {"add", "list", "remove"}
  /\ UNCHANGED <<table, nextId>>
  /\ Settle(s, Result(TRUE, <<>>, NoText))

(* ------------------------- POST /api/ai/chat -------------------------- *)
Chat(s) ==
  /\ pc[s] = "idle"
  /\ Call(s, Request("chat", NoBody, "", NoSeg))

\* Variant whose catch block retries the AI call once.
ChatDoneRetry(s) ==
  /\ pc[s] = "returned"
  /\ req[s].kind = "chat"
  /\ IF result[s].threw /\ ncalls[s] < 2
     THEN /\ pc' = [pc EXCEPT ![s] = "called"]
          /\ ncalls' = [ncalls EXCEPT ![s] = @ + 1]
          /\ UNCHANGED <<req, resp, nresp>>
     ELSE /\ IF result[s].threw
             THEN Respond(s,
                    ErrorResponse(500, "Failed to get response from AI."))
             ELSE Respond(s, Response(200,
                    Payload(<<>>, "", result[s].text, NoJson)))
          /\ UNCHANGED <<req, ncalls>>
  /\ Unused(s)

ChatDone(s) ==
  /\ pc[s] = "returned"
  /\ req[s].kind = "chat"
  /\ IF result[s].threw
     THEN Respond(s, ErrorResponse(500, "Failed to get response from AI."))
     ELSE Respond(s, Response(200,
            Payload(<<>>, "", result[s].text, NoJson)))
  /\ UNCHANGED <<req, ncalls>>
  /\ Unused(s)

(* ------------------------- POST /api/ai/quiz -------------------------- *)
Quiz(s) ==
  /\ pc[s] = "idle"
  /\ Call(s, Request("quiz", NoBody, "", NoSeg))

QuizDone(s) ==
  /\ pc[s] = "returned"
  /\ req[s].kind = "quiz"
  /\ IF result[s].threw \/ JsonParse(result[s].text).threw
     THEN Respond(s, ErrorResponse(500, "Failed to generate quiz from AI."))
     ELSE Respond(s, Response(200,
            Payload(<<>>, "", NoText, JsonParse(result[s].text).value)))
  /\ UNCHANGED <<req, ncalls>>
  /\ Unused(s)

\* ai.models.generateContent resolves with a text, or rejects.
AiReply(s, t) ==
  /\ pc[s] = "called"
  /\ req[s].kind \in {"chat", "quiz"}
  /\ UNCHANGED <<table, nextId>>
  /\ Settle(s, Result(FALSE, <<>>, t))

AiThrow(s) ==
  /\ pc[s] = "called"
  /\ req[s].kind \in {"chat", "quiz"}
  /\ UNCHANGED <<table, nextId>>
  /\ Settle(s, Result(TRUE, <<>>, NoText))

(* ------------------------- request completion ------------------------- *)
\* The response has gone out; the slot takes the next request.
Finish(s) ==
  /\ pc[s] = "done"
  /\ prev' = [req |-> req[s], resp |-> resp[s], after |-> table]
  /\ pc' = [pc EXCEPT ![s] = "idle"]
  /\ req' = [req EXCEPT ![s] = NoRequest]
  /\ result' = [result EXCEPT ![s] = NoResult]
  /\ resp' = [resp EXCEPT ![s] = NoResponse]
  /\ ncalls' = [ncalls EXCEPT ![s] = 0]
  /\ nresp' = [nresp EXCEPT ![s] = 0]
  /\ before' = [before EXCEPT ![s] = <<>>]
  /\ after' = [after EXCEPT ![s] = <<>>]
  /\ UNCHANGED <<table, nextId>>

(* --------------------------- specifications --------------------------- *)
\* One connection, serving any sequence of requests of all five routes.
Next ==
  \/ \E s \in SeqSlots, b \in AddBodies : AddFavorite(s, b)
  \/ \E s \in SeqSlots : InsertExec(s)
  \/ \E s \in SeqSlots : AddFavoriteDone(s)
  \/ \E s \in SeqSlots, u \in Users : ListFavorites(s, u)
  \/ \E s \in SeqSlots : SelectExec(s)
  \/ \E s \in SeqSlots : ListFavoritesDone(s)
  \/ \E s \in SeqSlots, u \in Users, sg \in Segs : RemoveFavorite(s, u, sg)
  \/ \E s \in SeqSlots : DeleteExec(s)
  \/ \E s \in SeqSlots : RemoveFavoriteDone(s)
  \/ \E s \in SeqSlots : DbThrow(s)
  \/ \E s \in SeqSlots : Chat(s)
  \/ \E s \in SeqSlots : ChatDone(s)
  \/ \E s \in SeqSlots : Quiz(s)
  \/ \E s \in SeqSlots : QuizDone(s)
  \/ \E s \in SeqSlots, t \in AiTexts : AiReply(s, t)
  \/ \E s \in SeqSlots : AiThrow(s)
  \/ \E s \in SeqSlots : Finish(s)

Spec == Init /\ [][Next]_vars

\* MaxConc connections, each carrying one favorites request; the handlers'
\* steps interleave freely.
ConcInputs ==
  << Request("add", Body(Fields, "u1", 1, "Soup"), "", NoSeg),
     Request("add", Body(Fields, "u1", 2, "Soup"), "", NoSeg),
     Request("add", Body(Fields, "u2", 1, "Soup"), "", NoSeg),
     Request("add", Body(Fields, "u1", 0, "Soup"), "", NoSeg),
     Request("list", NoBody, "u1", NoSeg),
     Request("remove", NoBody, "u1", <<"1">>),
     Request("remove", NoBody, "u1", <<"1", "x">>) >>

InputIndex(q) == CHOOSE i \in 1..Len(ConcInputs) : ConcInputs[i] = q

\* Connections are taken in order, and (a handler's first step touching
\* nothing shared) the requests are laid out on them in the order of
\* ConcInputs: every set of concurrent requests appears once.
NextFree ==
  { s \in ConcSlots : pc[s] = "idle" /\ \A t \in 1..(s - 1) : pc[t] # "idle" }

Admissible(s) ==
  { q \in { ConcInputs[i] : i \in 1..Len(ConcInputs) } :
      s = 1 \/ InputIndex(q) >= InputIndex(req[s - 1]) }

NextConc ==
  \/ \E s \in NextFree : \E q \in Admissible(s) :
        q.kind = "add" /\ AddFavorite(s, q.body)
  \/ \E s \in ConcSlots : InsertExec(s)
  \/ \E s \in ConcSlots : AddFavoriteDone(s)
  \/ \E s \in NextFree : \E q \in Admissible(s) :
        q.kind = "list" /\ ListFavorites(s, q.userId)
  \/ \E s \in ConcSlots : SelectExec(s)
  \/ \E s \in ConcSlots : ListFavoritesDone(s)
  \/ \E s \in NextFree : \E q \in Admissible(s) :
        q.kind = "remove" /\ RemoveFavorite(s, q.userId, q.seg)
  \/ \E s \in ConcSlots : DeleteExec(s)
  \/ \E s \in ConcSlots : RemoveFavoriteDone(s)
  \/ \E s \in ConcSlots : DbThrow(s)

SpecConc == Init /\ [][NextConc]_vars

(* ------------------------ sequential execution ------------------------ *)
\* A handler run to completion on its own, the collaborator throwing or not.
HandleSeq(t, nid, q, threw) ==
  CASE q.kind = "add" ->
         IF MissingRequired(q.body)
         THEN [table |-> t, nextId |-> nid,
               resp |-> ErrorResponse(400, "Missing required fields")]
         ELSE IF threw
         THEN [table |-> t, nextId |-> nid,
               resp |-> ErrorResponse(500, "Something went wrong")]
         ELSE LET t2 == InsertRow(t, nid, q.body)
              IN [table |-> t2, nextId |-> BumpId(nid),
                  resp |-> Response(201,
                    Payload(<<t2[Len(t2)]>>, "", NoText, NoJson))]
    [] q.kind = "list" ->
         [table |-> t, nextId |-> nid,
          resp |-> IF threw
                   THEN ErrorResponse(500, "Something went wrong")
                   ELSE Response(200,
                     Payload(SelectRows(t, q.userId), "", NoText, NoJson))]
    [] q.kind = "remove" ->
         IF threw
         THEN [table |-> t, nextId |-> nid,
               resp |-> ErrorResponse(500, "Something went wrong")]
         ELSE [table |-> DeleteRows(t, q.userId, ParseInt(q.seg)),
               nextId |-> nid,
               resp |-> Response(200, Payload(<<>>,
                 "Favorite removed successfully", NoText, NoJson))]

\* Run the requests of the slots order[1..n] one after the other from the
\* empty table, comparing each response with the one the slot sent.
RECURSIVE Replay(_, _)
Replay(order, n) ==
  IF n = 0 THEN [table |-> <<>>, nextId |-> 1, ok |-> TRUE]
  ELSE LET st == Replay(order, n - 1)
           s == order[n]
           h == HandleSeq(st.table, st.nextId, req[s], result[s].threw)
       IN [table |-> h.table, nextId |-> h.nextId,
           ok |-> st.ok /\ h.resp = resp[s]]

Orders(S) ==
  { f \in [1..Cardinality(S) -> S] :
      \A i, j \in 1..Cardinality(S) : i # j => f[i] # f[j] }

SameAsSequential(order) ==
  LET fin == Replay(order, Len(order))
  IN fin.ok /\ fin.table = table /\ fin.nextId = nextId

DoneSlots == { s \in ConcSlots : pc[s] = "done" }
Quiescent == \A s \in ConcSlots : pc[s] \in {"idle", "done"}

(* ------------------------------ helpers ------------------------------- *)
Range(sq) == { sq[i] : i \in 1..Len(sq) }

\* The request of slot s reached its collaborator, which did not throw.
Succeeded(s, k) ==
  /\ pc[s] \in {"returned", "done"}
  /\ req[s].kind = k
  /\ ncalls[s] >= 1
  /\ ~result[s].threw

\* The segment is a plain decimal number.
IsNumber(sg) == sg # <<>> /\ \A i \in 1..Len(sg) : sg[i] \in DigitChars

\* After white space and a sign the segment starts with a digit.
LeadingDigit(sg) ==
  LET s1 == StripWhite(sg)
      s2 == IF s1 # <<>> /\ Head(s1) \in {"-", "+"} THEN Tail(s1) ELSE s1
  IN s2 # <<>> /\ Head(s2) \in DigitChars

\* The parsed JSON is an array of objects with exactly the four quiz fields.
Conformant(v) ==
  v.isArray /\ \A i \in 1..Len(v.elems) : v.elems[i] = QuizFields

(* ------------------------------- claims ------------------------------- *)

\* C1: an add request in which userId, recipeId or title is missing is
\* answered 400 in the handler's first step, which issues no persistence
\* call and leaves the table and its id sequence as they were.
C1_MissingFieldRejected ==
  [][\A s \in ConcSlots :
       (/\ pc[s] = "idle"
        /\ pc'[s] # "idle"
        /\ req'[s].kind = "add"
        /\ req'[s].body.present # Fields)
       => (/\ pc'[s] = "done"
           /\ resp'[s].status = 400
           /\ nresp'[s] = 1
           /\ ncalls'[s] = 0
           /\ table' = table
           /\ nextId' = nextId)]_vars

C1_Witness ==
  \E s \in ConcSlots :
    /\ pc[s] = "done"
    /\ req[s].kind = "add"
    /\ req[s].body.present = Fields \ {"title"}
    /\ resp[s].status = 400
    /\ table # <<>>

C3_ListExact ==
  \A s \in ConcSlots :
    (pc[s] = "done" /\ Succeeded(s, "list"))
    => LET mine == { r \in Range(before[s]) : r.userId = req[s].userId }
       IN /\ resp[s].status = 200
          /\ Range(resp[s].body.rows) = mine
          /\ Len(resp[s].body.rows) = Cardinality(mine)
          /\ after[s] = before[s]

C3_Witness ==
  \E s \in ConcSlots :
    /\ pc[s] = "done"
    /\ Succeeded(s, "list")
    /\ Len(resp[s].body.rows) = 2
    /\ \E r \in Range(before[s]) : r.userId # req[s].userId

\* C4: after a remove request answered 200, no stored row has both the
\* requested userId and the requested recipeId (the integer read from the
\* path segment), and the table holds exactly the earlier rows whose userId
\* or recipeId differs, unchanged and in their order.
C4_RemoveFrame ==
  \A s \in ConcSlots :
    (pc[s] = "done" /\ req[s].kind = "remove" /\ resp[s].status = 200)
    => LET n == ParseInt(req[s].seg)
           hit(r) == r.userId = req[s].userId /\ ~n.nan /\ r.recipeId = n.val
           miss(r) == ~hit(r)
       IN /\ \A r \in Range(after[s]) : ~hit(r)
          /\ \A r \in Range(before[s]) : ~hit(r) => r \in Range(after[s])
          /\ after[s] = SelectSeq(before[s], miss)

C4_Witness ==
  \E s \in ConcSlots :
    /\ pc[s] = "done"
    /\ req[s].kind = "remove"
    /\ resp[s].status = 200
    /\ Len(before[s]) = Len(after[s]) + 1
    /\ \E r \in Range(after[s]) : r.userId = req[s].userId

\* C5: a remove request whose delete does not throw and matches no row is
\* answered 200 and leaves the table unchanged; a remove request that
\* directly follows the same remove request answered 200 leaves the table as
\* the first one left it and gets the same response.
C5_RemoveIdempotent ==
  \A s \in ConcSlots :
    (pc[s] = "done" /\ Succeeded(s, "remove"))
    => LET n == ParseInt(req[s].seg)
           hit(r) == r.userId = req[s].userId /\ ~n.nan /\ r.recipeId = n.val
       IN /\ (\A r \in Range(before[s]) : ~hit(r))
               => (resp[s].status = 200 /\ after[s] = before[s])
          /\ (prev.req = req[s] /\ prev.resp.status = 200
                /\ before[s] = prev.after)
               => (after[s] = prev.after /\ resp[s] = prev.resp)

C5_Witness ==
  \E s \in ConcSlots :
    /\ pc[s] = "done"
    /\ Succeeded(s, "remove")
    /\ prev.req = req[s]
    /\ prev.resp.status = 200
    /\ resp[s].status = 200
    /\ before[s] = prev.after
    /\ table # <<>>

\* C6: every stored row has userId, recipeId and title.
C6_RequiredPresent ==
  \A i \in 1..Len(table) :
    /\ Fields \subseteq table[i].present
    /\ table[i].userId # ""
    /\ table[i].recipeId # 0
    /\ table[i].title # ""

C6_Witness ==
  /\ Len(table) >= 2
  /\ prev.req.kind = "add"
  /\ prev.resp.status = 400

\* C7 as stated: a remove request whose recipeId segment is not a number
\* (and whose delete does not throw) leaves the table unchanged and is
\* answered 200.
C7_NotANumberMatchesNothing ==
  \A s \in ConcSlots :
    (pc[s] = "done" /\ Succeeded(s, "remove") /\ ~IsNumber(req[s].seg))
    => (after[s] = before[s] /\ resp[s].status = 200)

\* C7 amended: a remove request whose recipeId segment does not start with
\* a digit (after white space and a sign), and whose delete does not throw,
\* issues its delete, which leaves the table unchanged, and is answered 200.
C7_NoLeadingDigitMatchesNothing ==
  \A s \in ConcSlots :
    (pc[s] = "done" /\ Succeeded(s, "remove") /\ ~LeadingDigit(req[s].seg))
    => (after[s] = before[s] /\ resp[s].status = 200 /\ ncalls[s] = 1)

C7_Witness ==
  \E s \in ConcSlots :
    /\ pc[s] = "done"
    /\ Succeeded(s, "remove")
    /\ req[s].seg = <<"x", "1">>
    /\ resp[s].status = 200
    /\ \E r \in Range(after[s]) :
         r.userId = req[s].userId /\ r.recipeId = 1

\* C8: a request makes at most one collaborator call and gets at most one
\* response, exactly one once it is done; when the collaborator call threw,
\* that one call is the only one and the response is 500, on every route.
C8_ThrowIs500NoRetry ==
  \A s \in ConcSlots :
    /\ ncalls[s] <= 1
    /\ nresp[s] <= 1
    /\ pc[s] = "done" => nresp[s] = 1
    /\ pc[s] # "done" => nresp[s] = 0
    /\ (pc[s] \in {"returned", "done"} /\ result[s].threw)
         => (ncalls[s] = 1 /\ (pc[s] = "done" => resp[s].status = 500))

C8_Witness ==
  \E s \in ConcSlots :
    /\ pc[s] = "done"
    /\ req[s].kind = "chat"
    /\ result[s].threw
    /\ resp[s].status = 500

\* C9 as stated: a quiz request is answered 200 only with an array whose
\* every element has exactly the fields question, options, correctAnswer
\* and explanation, which it is whenever the AI call returns conformant
\* text; any other outcome of the AI call is answered 500.
C9_QuizConformantOr500 ==
  \A s \in ConcSlots :
    (pc[s] = "done" /\ req[s].kind = "quiz")
    => IF /\ ~result[s].threw
          /\ result[s].text.wellFormed
          /\ Conformant(result[s].text.value)
       THEN resp[s].status = 200 /\ resp[s].body.quiz = result[s].text.value
       ELSE resp[s].status = 500

\* C10: whenever no request is in flight, the table, the id sequence and
\* every response sent are those of running the same requests one after the
\* other in some order; two adds whose inserts succeeded got distinct ids and
\* (no remove having run) are both stored; a remove deleted no row whose
\* userId or recipeId differs from its pair.
C10_Linearizable ==
  /\ Quiescent => \E order \in Orders(DoneSlots) : SameAsSequential(order)
  /\ \A s, t \in ConcSlots :
       (s # t /\ Succeeded(s, "add") /\ Succeeded(t, "add"))
       => /\ result[s].rows[1].id # result[t].rows[1].id
          /\ (\A u \in ConcSlots : req[u].kind # "remove")
               => result[s].rows[1] \in Range(table)
  /\ \A s \in ConcSlots :
       Succeeded(s, "remove")
       => LET n == ParseInt(req[s].seg)
          IN \A r \in Range(before[s]) :
               (r.userId # req[s].userId \/ n.nan \/ r.recipeId # n.val)
               => r \in Range(after[s])

\* All connections used and answered, two adds and a remove among them, in
\* an interleaving that running them in connection order does not explain.
C10_Witness ==
  /\ \A s \in ConcSlots : pc[s] = "done"
  /\ \E s, t \in ConcSlots :
       s # t /\ resp[s].status = 201 /\ resp[t].status = 201
  /\ \E s \in ConcSlots :
       /\ req[s].kind = "remove"
       /\ resp[s].status = 200
       /\ after[s] # before[s]
  /\ ~SameAsSequential([i \in ConcSlots |-> i])

====
